---- MODULE Spec2Model ----
(***************************************************************************)
(* Model of commands/inspect/inspect.go: the handlers parents, children,   *)
(* tree and inspect over the map of image definitions that                 *)
(* images.BuildAllDefinitions returns.  One behaviour is one invocation of *)
(* one handler on one images directory.                                    *)
(*                                                                         *)
(* An image definition is the record the handlers read: Name, Inherits     *)
(* and InheritsExternal.  The map is a function from the names it holds    *)
(* to such records.  Inherits is a plain string in the source and nothing  *)
(* in inspect.go relates it to the keys of the map, so the directories     *)
(* drawn include a local parent that the map does not hold, a chain that   *)
(* runs in a circle, and an external identifier spelled like an image      *)
(* name.                                                                   *)
(*                                                                         *)
(* Left out: the cli.Command wrappers (lines 15-124), which only count the *)
(* arguments and turn the error into an exit code, and utils.ExpandPath,   *)
(* which rewrites the directory path and nothing the handlers compute.     *)
(***************************************************************************)
EXTENDS Integers, Sequences, FiniteSets, TLC

\* Number of image names a directory can hold.
MaxNames == 3

\* Image names, in the lexicographic order sort.StringSlice gives them.
NamePool == <<"a", "b", "c", "d", "e">>

Names == {NamePool[i] : i \in 1..MaxNames}

\* Identifiers that no image of the directory bears.
ExternalIds == {"x", "y"}

\* Every value the Inherits field takes.
Labels == Names \cup ExternalIds

NameIndex(n) == CHOOSE i \in 1..Len(NamePool) : NamePool[i] = n

\* images.ImageDefinition, restricted to the fields inspect.go reads.
ImageDefinition(n, inh, ext) == [Name |-> n, Inherits |-> inh, InheritsExternal |-> ext]

\* The zero value Go's map index yields for a key that is absent.
ZeroDefinition == ImageDefinition("", "", FALSE)

\* The values of the pair (Inherits, InheritsExternal): a local parent is
\* an image name, held by the directory or not; an external parent is any
\* label.
ParentRefs == (Names \X {FALSE}) \cup (Labels \X {TRUE})

\* Every map images.BuildAllDefinitions can return: one record per name
\* held, keyed by the record's own Name.
DefinitionSets ==
    UNION { { [n \in S |-> ImageDefinition(n, f[n][1], f[n][2])] :
                f \in [S -> ParentRefs] } : S \in SUBSET Names }

\* imageDefinitions[key] with Go's semantics for a missing key.
Lookup(defs, key) == IF key \in DOMAIN defs THEN defs[key] ELSE ZeroDefinition

\* The values of the error the handlers return.
ErrNil == "nil"
ErrName == "Name is required"
ErrDir == "Images directory is required"
ErrLoad == "load error"
ErrNotFound == "Image doesn't exist"

\* What gotree.PrintTree has printed while it has printed nothing.
NoTree == [Name |-> "<none>", Items |-> <<>>]

VARIABLES
    disk,              \* the definitions the images directory holds
    pc,                \* "start", "parents_loop", "done" or "diverged"
    args,              \* the handler called and its arguments
    imageDefinitions,  \* the handler's local map
    loaded,            \* BuildAllDefinitions has returned the map
    loop,              \* parents' locals: current, results, finished
    output,            \* the lines log.Println has written
    printed,           \* the tree gotree.PrintTree has written
    err                \* the error the handler returned

vars == <<disk, pc, args, imageDefinitions, loaded, loop, output, printed, err>>

NoArgs == [op |-> "", name |-> "", imagesDir |-> "", excludeExternal |-> FALSE, reverse |-> FALSE]

NoLoop == [current |-> ZeroDefinition, results |-> <<>>, finished |-> FALSE]

EmptyMap == [n \in {} |-> ZeroDefinition]

Init ==
    /\ disk \in DefinitionSets
    /\ pc = "start"
    /\ args = NoArgs
    /\ imageDefinitions = EmptyMap
    /\ loaded = FALSE
    /\ loop = NoLoop
    /\ output = <<>>
    /\ printed = NoTree
    /\ err = ErrNil

\* The arguments the command line can pass.
NameArgs == Names \cup {""}
DirArgs == {"", "."}

----------------------------------------------------------------------------
(* utils.Reverse *)

RECURSIVE Reverse(_)
Reverse(s) == IF s = <<>> THEN <<>> ELSE Append(Reverse(Tail(s)), Head(s))

(* utils.RemoveDuplicates: the first appearance of each element is kept. *)

RECURSIVE RemoveDuplicates(_)
RemoveDuplicates(s) ==
    IF s = <<>> THEN <<>>
    ELSE LET front == SubSeq(s, 1, Len(s) - 1)
             last == s[Len(s)]
             rest == RemoveDuplicates(front)
         IN IF \E i \in 1..Len(front) : front[i] = last THEN rest ELSE Append(rest, last)

----------------------------------------------------------------------------
(* parents *)

\* Variant: the map index is not checked.
ParentsEntryErrorIgnoresMissing(name, imagesDir, loadOk, defs) ==
    IF Len(name) = 0 THEN ErrName
    ELSE IF Len(imagesDir) = 0 THEN ErrDir
    ELSE IF ~loadOk THEN ErrLoad
    ELSE ErrNil

\* The function returns before the loop: the two argument checks, the load
\* and the map index (lines 128-148).  The result is the error returned.
ParentsEntryError(name, imagesDir, loadOk, defs) ==
    IF Len(name) = 0 THEN ErrName
    ELSE IF Len(imagesDir) = 0 THEN ErrDir
    ELSE IF ~loadOk THEN ErrLoad
    ELSE IF name \notin DOMAIN defs THEN ErrNotFound
    ELSE ErrNil

\* Variant: excludeExternal is not read.
ParentsStepSkipsExclude(st, defs, excludeExternal) ==
    IF st.current.InheritsExternal
    THEN [st EXCEPT !.results = Append(st.results, st.current.Inherits),
                    !.finished = TRUE]
    ELSE LET next == Lookup(defs, st.current.Inherits)
         IN [st EXCEPT !.current = next, !.results = Append(st.results, next.Name)]

\* Variant: the record left is appended, not the record reached.
ParentsStepAppendsSelf(st, defs, excludeExternal) ==
    IF st.current.InheritsExternal
    THEN [st EXCEPT !.results = IF excludeExternal THEN st.results
                                ELSE Append(st.results, st.current.Inherits),
                    !.finished = TRUE]
    ELSE LET next == Lookup(defs, st.current.Inherits)
         IN [st EXCEPT !.current = next, !.results = Append(st.results, st.current.Name)]

\* One pass of the body of `for finished != true` (lines 154-162).
ParentsStep(st, defs, excludeExternal) ==
    IF st.current.InheritsExternal
    THEN [st EXCEPT !.results = IF excludeExternal THEN st.results
                                ELSE Append(st.results, st.current.Inherits),
                    !.finished = TRUE]
    ELSE LET next == Lookup(defs, st.current.Inherits)
         IN [st EXCEPT !.current = next, !.results = Append(st.results, next.Name)]

\* Variant: reverse is not read.
ParentsOrderKeepsOrder(results, reverse) == results

\* Lines 165-167: the order in which the results are printed.
ParentsOrder(results, reverse) == IF reverse THEN Reverse(results) ELSE results

\* The loop has no exit but `finished`; a chain that never meets an
\* external parent appends one name per pass without end.  The model stops
\* following it once it has made more passes than a chain without a
\* repeated record can hold.
LoopCap == MaxNames + 2

ParentsStart(name, imagesDir, excludeExternal, reverse, loadOk) ==
    /\ pc = "start"
    /\ args' = [op |-> "parents", name |-> name, imagesDir |-> imagesDir,
                excludeExternal |-> excludeExternal, reverse |-> reverse]
    /\ LET e == ParentsEntryError(name, imagesDir, loadOk, disk)
           reached == Len(name) # 0 /\ Len(imagesDir) # 0 /\ loadOk
       IN /\ err' = e
          /\ loaded' = reached
          /\ imageDefinitions' = IF reached THEN disk ELSE EmptyMap
          /\ pc' = IF e = ErrNil THEN "parents_loop" ELSE "done"
          /\ loop' = IF e = ErrNil
                     THEN [current |-> Lookup(disk, name), results |-> <<>>, finished |-> FALSE]
                     ELSE NoLoop
    /\ UNCHANGED <<disk, output, printed>>

ParentsIterate ==
    /\ pc = "parents_loop"
    /\ ~loop.finished
    /\ Len(loop.results) < LoopCap
    /\ loop' = ParentsStep(loop, imageDefinitions, args.excludeExternal)
    /\ UNCHANGED <<disk, pc, args, imageDefinitions, loaded, output, printed, err>>

ParentsFinish ==
    /\ pc = "parents_loop"
    /\ loop.finished
    /\ output' = ParentsOrder(loop.results, args.reverse)
    /\ pc' = "done"
    /\ UNCHANGED <<disk, args, imageDefinitions, loaded, loop, printed, err>>

----------------------------------------------------------------------------
(* children *)

\* The orders in which Go's `range` can visit the keys of a map.
RangeOrders(defs) ==
    LET keys == DOMAIN defs
        n == Cardinality(keys)
    IN { o \in [1..n -> keys] : \A i, j \in 1..n : o[i] = o[j] => i = j }

\* The argument checks, the load and the map index (lines 177-197).
ChildrenEntryError(name, imagesDir, loadOk, defs) ==
    IF Len(name) = 0 THEN ErrName
    ELSE IF Len(imagesDir) = 0 THEN ErrDir
    ELSE IF ~loadOk THEN ErrLoad
    ELSE IF name \notin DOMAIN defs THEN ErrNotFound
    ELSE ErrNil

\* Variant: the records compared are those with the parent of `current`.
ChildrenScanMatchesSiblings(current, defs, order) ==
    LET matches(k) == defs[k].Inherits = current.Inherits
    IN SelectSeq(order, matches)

\* Lines 199-205: the scan of the map in range order `order`.
ChildrenScan(current, defs, order) ==
    LET matches(k) == defs[k].Inherits = current.Name
    IN SelectSeq(order, matches)

\* sort.Sort(sort.Reverse(sort.StringSlice(results))): insertion into a
\* sequence kept in descending order.
RECURSIVE SortDescending(_)
SortDescending(s) ==
    IF s = <<>> THEN <<>>
    ELSE LET rest == SortDescending(Tail(s))
             h == Head(s)
             before == SelectSeq(rest, LAMBDA x : NameIndex(x) > NameIndex(h))
             after == SelectSeq(rest, LAMBDA x : NameIndex(x) <= NameIndex(h))
         IN before \o <<h>> \o after

\* Lines 207-209.
ChildrenOrder(results, reverse) == IF reverse THEN SortDescending(results) ELSE results

children(name, imagesDir, reverse, loadOk) ==
    /\ pc = "start"
    /\ LET e == ChildrenEntryError(name, imagesDir, loadOk, disk)
           reached == Len(name) # 0 /\ Len(imagesDir) # 0 /\ loadOk
       IN /\ err' = e
          /\ loaded' = reached
          /\ imageDefinitions' = IF reached THEN disk ELSE EmptyMap
          /\ IF e = ErrNil
             THEN \E order \in RangeOrders(disk) :
                     output' = ChildrenOrder(ChildrenScan(Lookup(disk, name), disk, order),
                                             reverse)
             ELSE output' = output
    /\ args' = [op |-> "children", name |-> name, imagesDir |-> imagesDir,
                excludeExternal |-> FALSE, reverse |-> reverse]
    /\ pc' = "done"
    /\ UNCHANGED <<disk, loop, printed>>

----------------------------------------------------------------------------
(* tree *)

Node(name, items) == [Name |-> name, Items |-> items]

\* buildTreeRecursively calls itself once for every record whose Inherits
\* is the name it was given, and has no other way to stop.  It returns only
\* if no chain of such calls is longer than `fuel`; a chain longer than the
\* map has records passes through one record twice and so never ends.
RECURSIVE RecursesBeyond(_, _, _)
RecursesBeyond(parentName, defs, fuel) ==
    \E k \in DOMAIN defs :
        /\ defs[k].Inherits = parentName
        /\ (fuel = 0 \/ RecursesBeyond(k, defs, fuel - 1))

\* Variant: the children found are given no items.
BuildTreeNoRecursion(parentDefinition, defs, order) ==
    LET matches(k) == defs[k].Inherits = parentDefinition.Name
        found == SelectSeq(order, matches)
    IN [i \in 1..Len(found) |-> Node(defs[found[i]].Name, <<>>)]

\* Lines 218-234, for a call that returns.
RECURSIVE buildTreeRecursively(_, _, _)
buildTreeRecursively(parentDefinition, defs, order) ==
    LET matches(k) == defs[k].Inherits = parentDefinition.Name
        found == SelectSeq(order, matches)
    IN [i \in 1..Len(found) |->
          Node(defs[found[i]].Name, buildTreeRecursively(defs[found[i]], defs, order))]

\* Variant: utils.RemoveDuplicates is not called.
ExternalImagesKeepsDuplicates(defs, order) ==
    LET isExternal(k) == defs[k].InheritsExternal
        found == SelectSeq(order, isExternal)
    IN [i \in 1..Len(found) |-> defs[found[i]].Inherits]

\* Lines 249-258: the root items.
ExternalImages(defs, order) ==
    LET isExternal(k) == defs[k].InheritsExternal
        found == SelectSeq(order, isExternal)
    IN RemoveDuplicates([i \in 1..Len(found) |-> defs[found[i]].Inherits])

\* Lines 262-276: the node of one external image.
ExternalImageNode(externalImage, defs, order) ==
    LET under(k) == defs[k].InheritsExternal /\ defs[k].Inherits = externalImage
        found == SelectSeq(order, under)
    IN Node(externalImage,
            [i \in 1..Len(found) |->
               Node(defs[found[i]].Name, buildTreeRecursively(defs[found[i]], defs, order))])

\* Some call of buildTreeRecursively made by tree never returns.
TreeDiverges(defs) ==
    \E k \in DOMAIN defs :
        defs[k].InheritsExternal /\ RecursesBeyond(k, defs, Cardinality(DOMAIN defs))

RootNode(defs, order) ==
    LET roots == ExternalImages(defs, order)
    IN Node("", [i \in 1..Len(roots) |-> ExternalImageNode(roots[i], defs, order)])

\* Go draws a fresh order for every `range`; the model draws one for the
\* call, which fixes the order of siblings and nothing else.
tree(imagesDir, loadOk) ==
    /\ pc = "start"
    /\ args' = [NoArgs EXCEPT !.op = "tree", !.imagesDir = imagesDir]
    /\ LET e == IF Len(imagesDir) = 0 THEN ErrDir
                ELSE IF ~loadOk THEN ErrLoad ELSE ErrNil
       IN IF e # ErrNil
          THEN /\ err' = e
               /\ pc' = "done"
               /\ UNCHANGED <<imageDefinitions, loaded, printed>>
          ELSE /\ imageDefinitions' = disk
               /\ loaded' = TRUE
               /\ IF TreeDiverges(disk)
                  THEN /\ pc' = "diverged"
                       /\ UNCHANGED <<printed, err>>
                  ELSE /\ \E order \in RangeOrders(disk) :
                             printed' = RootNode(disk, order)
                       /\ err' = ErrNil
                       /\ pc' = "done"
    /\ UNCHANGED <<disk, loop, output>>

----------------------------------------------------------------------------
(* inspect *)

\* images.BuildDefinition returns a definition and an error.  When it
\* fails, the definition it returns is either the zero value or the one it
\* had begun to fill in; inspect prints its Name before it looks at the
\* error (lines 294-298).
inspect(name, imagesDir, loadOk, partial) ==
    /\ pc = "start"
    /\ args' = [NoArgs EXCEPT !.op = "inspect", !.name = name, !.imagesDir = imagesDir]
    /\ IF Len(name) = 0
       THEN err' = ErrName /\ output' = output
       ELSE IF Len(imagesDir) = 0
       THEN err' = ErrDir /\ output' = output
       ELSE LET imageDefinition ==
                    IF loadOk /\ name \in DOMAIN disk THEN disk[name]
                    ELSE IF partial THEN ImageDefinition(name, "", FALSE)
                    ELSE ZeroDefinition
            IN /\ output' = Append(output, imageDefinition.Name)
               /\ err' = IF loadOk /\ name \in DOMAIN disk THEN ErrNil ELSE ErrLoad
    /\ pc' = "done"
    /\ UNCHANGED <<disk, imageDefinitions, loaded, loop, printed>>

----------------------------------------------------------------------------
(* Vocabulary of the properties *)

Size(defs) == Cardinality(DOMAIN defs)

Range(s) == {s[i] : i \in 1..Len(s)}

\* The records met by following local (non-external) parent references
\* from n, at most `fuel` of them.
RECURSIVE LocalAncestors(_, _, _)
LocalAncestors(defs, n, fuel) ==
    IF fuel = 0 \/ n \notin DOMAIN defs \/ defs[n].InheritsExternal THEN {}
    ELSE {defs[n].Inherits} \cup LocalAncestors(defs, defs[n].Inherits, fuel - 1)

\* No record is its own ancestor.
Acyclic(defs) == \A n \in DOMAIN defs : n \notin LocalAncestors(defs, n, Size(defs))

\* Every local parent reference names a record of the set.
ParentClosed(defs) ==
    \A n \in DOMAIN defs : ~defs[n].InheritsExternal => defs[n].Inherits \in DOMAIN defs

\* Number of parent references between n and its external root, the
\* reference to the root included.
RECURSIVE Depth(_, _)
Depth(defs, n) ==
    IF defs[n].InheritsExternal THEN 1 ELSE 1 + Depth(defs, defs[n].Inherits)

\* The loop of parents run to its end from the record of `name`.
RECURSIVE ParentsRun(_, _, _, _)
ParentsRun(st, defs, excludeExternal, fuel) ==
    IF st.finished \/ fuel = 0 THEN st
    ELSE ParentsRun(ParentsStep(st, defs, excludeExternal), defs, excludeExternal, fuel - 1)

\* What parents(name, excludeExternal, reverse) prints on defs.
ParentsOutput(name, defs, excludeExternal, reverse) ==
    ParentsOrder(
        ParentsRun([current |-> Lookup(defs, name), results |-> <<>>, finished |-> FALSE],
                   defs, excludeExternal, Size(defs) + 1).results,
        reverse)

ParentsReturned == pc = "done" /\ args.op = "parents" /\ err = ErrNil
ChildrenReturned == pc = "done" /\ args.op = "children" /\ err = ErrNil
TreeReturned == pc = "done" /\ args.op = "tree" /\ err = ErrNil

WellFormed(defs) == Acyclic(defs) /\ ParentClosed(defs)

\* Every node below the given items, the items included.
RECURSIVE NodesBelow(_)
NodesBelow(items) ==
    UNION { {items[i]} \cup NodesBelow(items[i].Items) : i \in 1..Len(items) }

\* The labels of the nodes below the given items, one entry per node.
RECURSIVE LabelsBelow(_)
LabelsBelow(items) ==
    IF items = <<>> THEN <<>>
    ELSE <<Head(items).Name>> \o LabelsBelow(Head(items).Items) \o LabelsBelow(Tail(items))

\* The labels of the nodes below the given roots, the roots left out.
RECURSIVE NonRootLabels(_)
NonRootLabels(roots) ==
    IF roots = <<>> THEN <<>>
    ELSE LabelsBelow(Head(roots).Items) \o NonRootLabels(Tail(roots))

Occurrences(x, s) == Cardinality({i \in 1..Len(s) : s[i] = x})

ItemNames(node) == [i \in 1..Len(node.Items) |-> node.Items[i].Name]

NoRepeats(s) == \A i, j \in 1..Len(s) : s[i] = s[j] => i = j

----------------------------------------------------------------------------
(* Properties *)

\* C1: on an acyclic, parent-closed set, parents(startName) without
\* exclude-external and without reverse prints a1..ak where each line is the
\* parent reference of the record before it on the chain startName, a1, ...,
\* a(k-1), all of them records of the set, only the last of them has an
\* external parent, and k is the depth of startName.
C1_ParentsChain ==
    (ParentsReturned /\ ~args.excludeExternal /\ ~args.reverse
        /\ WellFormed(imageDefinitions)) =>
    LET defs == imageDefinitions
        k == Len(output)
        chain == <<args.name>> \o SubSeq(output, 1, k - 1)
    IN /\ k >= 1
       /\ k = Depth(defs, args.name)
       /\ \A i \in 1..k :
            /\ chain[i] \in DOMAIN defs
            /\ output[i] = defs[chain[i]].Inherits
            /\ defs[chain[i]].InheritsExternal <=> i = k

C1_Witness ==
    /\ ParentsReturned /\ ~args.excludeExternal /\ ~args.reverse
    /\ WellFormed(imageDefinitions)
    /\ Len(output) = 3
    /\ output[3] \in ExternalIds

\* The external root label of the chain of startName.
RootLabel(defs, name) ==
    LET full == ParentsOutput(name, defs, FALSE, FALSE) IN full[Len(full)]

C3_DirectChildren ==
    ChildrenReturned =>
        /\ Range(output) = {n \in DOMAIN imageDefinitions :
                              imageDefinitions[n].Inherits = args.name}
        /\ NoRepeats(output)

C3_Witness ==
    /\ ChildrenReturned
    /\ Len(output) >= 1
    /\ \E g \in DOMAIN imageDefinitions :
          /\ imageDefinitions[g].Inherits \in Range(output)
          /\ imageDefinitions[g].Inherits # args.name
          /\ g \notin Range(output)

\* C4: the top-level nodes of the forest tree prints are labelled by the
\* distinct Inherits values of the records with an external parent, each
\* label on exactly one node.
C4_ForestRoots ==
    TreeReturned =>
        LET labels == {imageDefinitions[n].Inherits :
                          n \in {m \in DOMAIN imageDefinitions :
                                   imageDefinitions[m].InheritsExternal}}
        IN /\ Len(printed.Items) = Cardinality(labels)
           /\ Range(ItemNames(printed)) = labels

C4_Witness ==
    /\ TreeReturned
    /\ Len(printed.Items) = 2
    /\ Range(ItemNames(printed)) = ExternalIds
    /\ Cardinality({m \in DOMAIN imageDefinitions : imageDefinitions[m].InheritsExternal}) = 3

\* C5: in the forest of an acyclic set, the items of the root labelled L
\* are the records with an external parent L, each once, and the items of
\* every other node labelled n are the records whose Inherits is n, each
\* once; so a node is a leaf iff no record inherits from it.
C5_ForestShape ==
    (TreeReturned /\ Acyclic(imageDefinitions)) =>
        LET defs == imageDefinitions IN
        /\ \A i \in 1..Len(printed.Items) :
             LET root == printed.Items[i]
             IN /\ Range(ItemNames(root)) =
                      {n \in DOMAIN defs : defs[n].InheritsExternal
                                            /\ defs[n].Inherits = root.Name}
                /\ NoRepeats(ItemNames(root))
                /\ \A node \in NodesBelow(root.Items) :
                     /\ Range(ItemNames(node)) =
                           {n \in DOMAIN defs : defs[n].Inherits = node.Name}
                     /\ NoRepeats(ItemNames(node))
                     /\ node.Items = <<>> <=>
                           ~\E n \in DOMAIN defs : defs[n].Inherits = node.Name

C5_Witness ==
    /\ TreeReturned /\ Acyclic(imageDefinitions)
    /\ \E i \in 1..Len(printed.Items) :
         \E node \in NodesBelow(printed.Items[i].Items) :
            /\ Len(node.Items) = 2
            /\ \E other \in NodesBelow(printed.Items[i].Items) : other.Items = <<>>

\* C6: once the set is loaded, parents and children return the not-found
\* error exactly when the name is no key of it, and then they have walked
\* nothing and printed nothing.
C6_NotFound ==
    (args.op \in {"parents", "children"} /\ loaded) =>
        /\ err = ErrNotFound <=> args.name \notin DOMAIN imageDefinitions
        /\ err = ErrNotFound => pc = "done" /\ loop = NoLoop /\ output = <<>>

C6_Witness ==
    /\ args.op = "parents" /\ loaded /\ err = ErrNotFound
    /\ imageDefinitions # EmptyMap

\* C7 as stated: a handler that returns an error has printed nothing.
C7_NoOutputOnError ==
    err # ErrNil => output = <<>> /\ printed = NoTree

\* C8 as stated: parents never makes more passes than the set has records
\* (it stops with a cycle error instead), and tree never recurses without
\* end.
C8_CycleGuard ==
    /\ (args.op = "parents" /\ pc = "parents_loop") =>
          Len(loop.results) <= Size(imageDefinitions)
    /\ pc # "diverged"

\* C9: on an acyclic, parent-closed set, the output of parents with reverse
\* is the output without reverse read from its end, and reversing it again
\* gives the output without reverse.
C9_Reverse ==
    (ParentsReturned /\ args.reverse /\ WellFormed(imageDefinitions)) =>
        LET plain == ParentsOutput(args.name, imageDefinitions, args.excludeExternal, FALSE)
            n == Len(plain)
        IN /\ Len(output) = n
           /\ \A i \in 1..n : output[i] = plain[n + 1 - i]
           /\ ParentsOrder(output, TRUE) = plain

C9_Witness ==
    /\ ParentsReturned /\ args.reverse /\ WellFormed(imageDefinitions)
    /\ Len(output) = 3
    /\ output[1] \in ExternalIds

----------------------------------------------------------------------------

Next ==
    \/ \E n \in NameArgs, d \in DirArgs, ex \in BOOLEAN, rv \in BOOLEAN, ok \in BOOLEAN :
          ParentsStart(n, d, ex, rv, ok)
    \/ ParentsIterate
    \/ ParentsFinish
    \/ \E n \in NameArgs, d \in DirArgs, rv \in BOOLEAN, ok \in BOOLEAN :
          children(n, d, rv, ok)
    \/ \E d \in DirArgs, ok \in BOOLEAN : tree(d, ok)
    \/ \E n \in NameArgs, d \in DirArgs, ok \in BOOLEAN, partial \in BOOLEAN :
          inspect(n, d, ok, partial)

Spec == Init /\ [][Next]_vars

====
